---- MODULE Spec2Model ----
(***************************************************************************)
(* Model of the chat gateway: the session registry and message histories   *)
(* (clasess/OpenAIService.py), the /chat and /chat/stream handlers and the *)
(* streaming relay get_stream/generate (api.py).                           *)
(*                                                                         *)
(* Text is modelled by TLA+ strings: "" is the empty string, \o is         *)
(* concatenation.  A value that is None in the program is a distinguished  *)
(* marker (Absent for a missing JSON field, NullDelta for delta.content).  *)
(***************************************************************************)
EXTENDS Integers, Sequences, FiniteSets, TLC

\* ---------------------------------------------------------------- bounds
\* Increments the provider sends on one upstream stream.
MaxIncrements == 2
\* Calls of add_message each direct caller makes (AppendSpec).
MaxCalls == 2

\* Upstream completion calls the caller of completion() makes (ConfigSpec).
MaxDispatch == 2

\* Messages a user sends in one Gradio browser tab (GradioSpec).
MaxTurns == 2

\* The requests of one run, each served by its own handler thread of the
\* HTTP server, so that they can overlap.
Requests == {"r1", "r2"}
\* Direct callers of add_message on one shared history (AppendSpec).
Callers == {"c1", "c2"}

\* ---------------------------------------------------------------- values
\* data.get(...) of a field the JSON body does not have (None).
Absent == "<absent>"
\* The message a client can send: missing, empty, or a text.
MessageInputs == {Absent, "", "Hello"}
\* Non-empty texts the provider can put in one stream increment.
ChunkTexts == {"x", "y"}
\* Whole texts the provider can return to a non-streaming call.
WholeTexts == {"", "Hi"}
\* The persona the handlers seed a new history with.
SystemPrompt == "You are a helpful AI assistant. Be concise, friendly, and provide accurate information."

\* Role: the three values of the enum.
Role == {"system", "user", "assistant"}
\* Role strings a caller of add_message can pass.
RoleInputs == {"user", "USER", "assistant", "tool"}

\* str.lower() on the role strings of the model.
Lower(role) ==
    CASE role = "USER" -> "user"
      [] role = "User" -> "user"
      [] role = "SYSTEM" -> "system"
      [] role = "Assistant" -> "assistant"
      [] OTHER -> role

\* One provider increment: chunk.choices[0].delta.content is None or a string.
NullDelta == [is_none |-> TRUE, content |-> ""]
Delta(text) == [is_none |-> FALSE, content |-> text]
Deltas == {NullDelta, Delta("")} \cup {Delta(c) : c \in ChunkTexts}

VARIABLES
    conversations,  \* api.conversations: session id -> MessageHistory
    clock,          \* datetime.now(), counted in message constructions
    uuids,          \* number of uuid4() identifiers generated so far
    disclosed,      \* session ids some response or event has told a client
    pc,             \* per request: where its handler / response generator is
    req,            \* per request: the handler's locals route, message, session_id
    hist,           \* per request: key of the handler's message_history ("" : none)
    status,         \* per request: HTTP status of the response the handler returned (0: none yet)
    body,           \* per request: 'response' of the JSON body of /chat
    mimetype,       \* per request: content type of the response the handler returned
    error,          \* per request: 'error' of the JSON error body ("": no error body)
    listing,        \* per request: 'messages' of the body of GET /conversations
    chunks,         \* per request: get_stream's accumulator list
    emitted,        \* per request: events handed to the consumer, in order
    deltas,         \* per request: the increments the provider has sent, in order
    upstream,       \* per request: the upstream streaming request
    loop,           \* per request: the event loop generate() creates
    consumer,       \* per request: the WSGI consumer of the response iterator
    cpc,            \* per caller: position inside add_message
    cmsg,           \* per caller: the local 'message' add_message constructed
    ccalls,         \* per caller: calls of add_message started
    creturned,      \* per caller: calls of add_message that returned a Message
    crole,          \* per caller: the argument 'role' of its last call
    cresult,        \* per caller: how its last call ended
    config,         \* the CompletionConfig a caller of completion() holds (<<>>: None)
    cargs,          \* arguments of the last CompletionConfig(...) call
    cerror,         \* message of the ValueError that call raised ("": none)
    sent,           \* params of the last chat.completions.create call (<<>>: none)
    dispatches,     \* number of chat.completions.create calls made
    default_config, \* the CompletionConfig() object of __init__'s default argument
    call,           \* the last call into the service: its method, and whether a config was passed
    conversation,   \* the MessageHistory a caller of print_stream passes
    ui,             \* per browser tab: the Gradio chat history, [user, assistant] pairs
    gresult         \* per browser tab: what the last call of the Gradio handler did

regVars == <<conversations, clock, uuids, disclosed>>
reqVars == <<pc, req, hist, status, body, mimetype, error, listing>>
strVars == <<chunks, emitted, deltas, upstream, loop, consumer>>
calVars == <<cpc, cmsg, ccalls, creturned, crole, cresult>>
cfgVars == <<config, cargs, cerror, sent, dispatches, default_config, call, conversation>>
grVars == <<ui, gresult>>
vars == <<regVars, reqVars, strVars, calVars, cfgVars, grVars>>

\* ------------------------------------------------ Message, MessageHistory
\* Message(...): the dataclass; 'by' is not a field of the program, it
\* records which request (or caller) constructed the message.
Message(role, content, now, sid, by) ==
    [role |-> role, content |-> content, timestamp |-> now,
     session_id |-> sid, user_id |-> "", tags |-> <<>>, by |-> by]

\* MessageHistory.__init__ with a generated identifier.
MessageHistory(sid) == [session_id |-> sid, messages |-> <<>>]

\* uuid.uuid4(): an identifier no history has had.
Uuid4 == "s" \o ToString(uuids + 1)

\* Mutant of ListAppend: a message of the role of the last one replaces it.
ListAppend_replaces_same_role(list, x) ==
    IF list # <<>> /\ list[Len(list)].role = x.role
    THEN [list EXCEPT ![Len(list)] = x]
    ELSE Append(list, x)

\* list.append: one atomic step of the interpreter.
ListAppend(list, x) == Append(list, x)

\* Mutant of RoleOk: the role is checked as given, before it is lowered.
RoleOk_checks_given_role(role) == role \in Role

\* add_message's check of the lowered role.
RoleOk(role) == Lower(role) \in Role

\* Mutant of add_message: the Message is built without the history's
\* session_id.
add_message_without_session_id(h, role, content, now, by) ==
    IF ~RoleOk(role)
    THEN h
    ELSE [h EXCEPT !.messages =
            ListAppend(@, Message(Lower(role), content, now, "", by))]

\* MessageHistory.add_message on history h (the ValueError path leaves h).
add_message(h, role, content, now, by) ==
    IF ~RoleOk(role)
    THEN h
    ELSE [h EXCEPT !.messages =
            ListAppend(@, Message(Lower(role), content, now, h.session_id, by))]

\* ''.join(list)
RECURSIVE Join(_)
Join(list) == IF list = <<>> THEN "" ELSE Head(list) \o Join(Tail(list))

\* ------------------------------------------------------- session registry
\* 'session_id and session_id in conversations'
Known(s) == s # Absent /\ s # "" /\ s \in DOMAIN conversations

\* Mutant of get_or_create: an unknown supplied identifier is kept as the
\* identifier of the new history.
get_or_create_keeps_supplied_id(s, by) ==
    IF Known(s)
    THEN [key |-> s, registry |-> conversations, clock |-> clock, uuids |-> uuids]
    ELSE LET h0 == MessageHistory(IF s # Absent /\ s # "" THEN s ELSE Uuid4)
             h1 == add_message(h0, "system", SystemPrompt, clock + 1, by)
         IN [key |-> h1.session_id,
             registry |-> (h1.session_id :> h1) @@ conversations,
             clock |-> clock + 1, uuids |-> uuids + 1]

\* Mutant of get_or_create: registering a new history starts a new registry.
get_or_create_resets_registry(s, by) ==
    IF Known(s)
    THEN [key |-> s, registry |-> conversations, clock |-> clock, uuids |-> uuids]
    ELSE LET h0 == MessageHistory(Uuid4)
             h1 == add_message(h0, "system", SystemPrompt, clock + 1, by)
         IN [key |-> h1.session_id,
             registry |-> (h1.session_id :> h1),
             clock |-> clock + 1, uuids |-> uuids + 1]

\* The get-or-create block of chat / chat_stream for the supplied session_id
\* s, on behalf of request 'by': the key of message_history, the registry
\* after it, and the clock and uuid counts after it.
get_or_create(s, by) ==
    IF Known(s)
    THEN [key |-> s, registry |-> conversations, clock |-> clock, uuids |-> uuids]
    ELSE LET h0 == MessageHistory(Uuid4)
             h1 == IF h0.messages = <<>>
                   THEN add_message(h0, "system", SystemPrompt, clock + 1, by)
                   ELSE h0
         IN [key |-> h1.session_id,
             registry |-> (h1.session_id :> h1) @@ conversations,
             clock |-> clock + 1, uuids |-> uuids + 1]

\* Session identifiers a client can send: none, one the server never
\* generated, or one a response or an event has told it.
SessionInputs == {Absent, "unknown-id"} \cup disclosed

\* ------------------------------------------------------- CompletionConfig
\* temperature and top_p are counted in tenths: 25 is 2.5, -1 is -0.1.
MaxTemperature == 20
MaxTopP == 10

\* Values a caller passes to CompletionConfig(temperature=, top_p=).
TemperatureInputs == {-1, 0, 5, 20, 21, 25}
TopPInputs == {-1, 0, 5, 10, 11}

\* The dataclass fields the model follows.
CompletionConfig(temperature, top_p, stream) ==
    [model |-> "gpt-4o", temperature |-> temperature, top_p |-> top_p,
     stream |-> stream]

\* Mutant of post_init: only the temperature is validated.
post_init_checks_temperature_only(c) ==
    IF ~(0 <= c.temperature /\ c.temperature <= MaxTemperature)
    THEN "Temperature must be between 0 and 2"
    ELSE ""

\* CompletionConfig.__post_init__: the message of the ValueError it raises,
\* "" when it returns.
post_init(c) ==
    IF ~(0 <= c.temperature /\ c.temperature <= MaxTemperature)
    THEN "Temperature must be between 0 and 2"
    ELSE IF ~(0 <= c.top_p /\ c.top_p <= MaxTopP)
         THEN "Top_p must be between 0 and 1"
         ELSE ""

\* self.completion_config of a service constructed with the default
\* argument: the one CompletionConfig() object made when __init__ was defined.
completion_config == default_config

\* The sampling part of the params dict completion() builds from a config.
Params(c) ==
    [model |-> c.model, temperature |-> c.temperature, top_p |-> c.top_p,
     stream |-> c.stream]

\* ------------------------------------------------------------------ Init
NoReq == [route |-> "", message |-> "", session_id |-> ""]

InitRequests ==
    /\ pc = [r \in Requests |-> "idle"]
    /\ req = [r \in Requests |-> NoReq]
    /\ hist = [r \in Requests |-> ""]
    /\ status = [r \in Requests |-> 0]
    /\ body = [r \in Requests |-> ""]
    /\ mimetype = [r \in Requests |-> ""]
    /\ error = [r \in Requests |-> ""]
    /\ listing = [r \in Requests |-> <<>>]
    /\ chunks = [r \in Requests |-> <<>>]
    /\ emitted = [r \in Requests |-> <<>>]
    /\ deltas = [r \in Requests |-> <<>>]
    /\ upstream = [r \in Requests |-> "none"]
    /\ loop = [r \in Requests |-> "none"]
    /\ consumer = [r \in Requests |-> "none"]

InitCallers ==
    /\ cpc = [c \in Callers |-> "idle"]
    /\ cmsg = [c \in Callers |-> Message("", "", 0, "", c)]
    /\ ccalls = [c \in Callers |-> 0]
    /\ creturned = [c \in Callers |-> 0]
    /\ crole = [c \in Callers |-> ""]
    /\ cresult = [c \in Callers |-> "none"]

\* No caller has built a configuration; the last CompletionConfig(...) call
\* was the default argument of OpenAIService.__init__.
InitConfig ==
    /\ config = <<>>
    /\ cargs = [temperature |-> 5, top_p |-> 5, stream |-> FALSE]
    /\ cerror = ""
    /\ sent = <<>>
    /\ dispatches = 0
    /\ default_config = CompletionConfig(5, 5, FALSE)
    /\ call = [method |-> "", with_config |-> FALSE]
    /\ conversation = MessageHistory("")

\* Browser tabs of the Gradio interface.
Tabs == {"t1", "t2"}

\* No handler call made yet for a tab.
NoCall == [called |-> FALSE, empty_history |-> FALSE, session |-> "",
           created |-> FALSE, message |-> "", output |-> ""]

\* Every tab opens with an empty chat.
InitGradio ==
    /\ ui = [t \in Tabs |-> <<>>]
    /\ gresult = [t \in Tabs |-> NoCall]

\* The server after start-up: conversations = {}.
Init ==
    /\ conversations = <<>>
    /\ clock = 0
    /\ uuids = 0
    /\ disclosed = {}
    /\ InitRequests
    /\ InitCallers
    /\ InitConfig
    /\ InitGradio

\* --------------------------------------------------------------- handlers
\* Mutant of Accept: the session is resolved before the message is checked.
Accept_resolves_session_first(r, route, m, s, next) ==
    LET g == get_or_create(s, r)
        bad == m = Absent \/ m = ""
        h == IF bad THEN g.registry[g.key]
             ELSE add_message(g.registry[g.key], "user", m, g.clock + 1, r)
    IN /\ pc[r] = "idle"
       /\ req' = [req EXCEPT ![r] = [route |-> route, message |-> m, session_id |-> s]]
       /\ body' = [body EXCEPT ![r] = ""]
       /\ UNCHANGED <<disclosed, listing>>
       /\ conversations' = [g.registry EXCEPT ![g.key] = h]
       /\ clock' = IF bad THEN g.clock ELSE g.clock + 1
       /\ uuids' = g.uuids
       /\ hist' = [hist EXCEPT ![r] = IF bad THEN "" ELSE g.key]
       /\ status' = [status EXCEPT ![r] =
                       IF bad THEN 400 ELSE IF route = "/chat/stream" THEN 200 ELSE 0]
       /\ mimetype' = [mimetype EXCEPT ![r] =
                         IF bad THEN "application/json"
                         ELSE IF route = "/chat/stream" THEN "text/event-stream" ELSE ""]
       /\ error' = [error EXCEPT ![r] = IF bad THEN "Message is required" ELSE ""]
       /\ pc' = [pc EXCEPT ![r] = IF bad THEN "responded" ELSE next]

\* Lines shared by chat and chat_stream: parse the body, answer 400 when the
\* message is missing or empty, else resolve the session and append the user
\* message; 'next' is where the handler continues.
Accept(r, route, m, s, next) ==
    /\ pc[r] = "idle"
    /\ req' = [req EXCEPT ![r] = [route |-> route, message |-> m, session_id |-> s]]
    /\ body' = [body EXCEPT ![r] = ""]
    /\ UNCHANGED <<disclosed, listing>>
    /\ IF m = Absent \/ m = ""
       THEN /\ status' = [status EXCEPT ![r] = 400]
            /\ mimetype' = [mimetype EXCEPT ![r] = "application/json"]
            /\ error' = [error EXCEPT ![r] = "Message is required"]
            /\ pc' = [pc EXCEPT ![r] = "responded"]
            /\ hist' = [hist EXCEPT ![r] = ""]
            /\ UNCHANGED <<conversations, clock, uuids>>
       ELSE LET g == get_or_create(s, r)
                h == add_message(g.registry[g.key], "user", m, g.clock + 1, r)
            IN /\ conversations' = [g.registry EXCEPT ![g.key] = h]
               /\ clock' = g.clock + 1
               /\ uuids' = g.uuids
               /\ hist' = [hist EXCEPT ![r] = g.key]
               /\ status' = [status EXCEPT ![r] = IF route = "/chat/stream" THEN 200 ELSE 0]
               /\ mimetype' = [mimetype EXCEPT ![r] =
                                 IF route = "/chat/stream" THEN "text/event-stream" ELSE ""]
               /\ error' = [error EXCEPT ![r] = ""]
               /\ pc' = [pc EXCEPT ![r] = next]

\* str(e) of the exception a failed upstream call raises.
UpstreamFailure == "Connection error."

\* POST /chat up to the upstream call.
ChatStart(r) ==
    \E m \in MessageInputs, s \in SessionInputs :
        /\ Accept(r, "/chat", m, s, "awaiting")
        /\ UNCHANGED <<strVars, calVars, cfgVars, grVars>>

\* Mutant of ChatReturn: the histories share one message list, so the
\* assistant message shows in every registered history.
ChatReturn_shared_list(r) ==
    \E text \in WholeTexts :
        /\ pc[r] = "awaiting"
        /\ conversations' = [s \in DOMAIN conversations |->
                                add_message(conversations[s], "assistant", text, clock + 1, r)]
        /\ clock' = clock + 1
        /\ body' = [body EXCEPT ![r] = text]
        /\ disclosed' = disclosed \cup {conversations[hist[r]].session_id}
        /\ status' = [status EXCEPT ![r] = 200]
        /\ mimetype' = [mimetype EXCEPT ![r] = "application/json"]
        /\ pc' = [pc EXCEPT ![r] = "responded"]
        /\ UNCHANGED <<uuids, req, hist, error, listing, strVars, calVars, cfgVars, grVars>>

\* Mutant of ChatReturn: the response is returned and not appended.
ChatReturn_without_append(r) ==
    \E text \in WholeTexts :
        /\ pc[r] = "awaiting"
        /\ body' = [body EXCEPT ![r] = text]
        /\ disclosed' = disclosed \cup {conversations[hist[r]].session_id}
        /\ status' = [status EXCEPT ![r] = 200]
        /\ mimetype' = [mimetype EXCEPT ![r] = "application/json"]
        /\ pc' = [pc EXCEPT ![r] = "responded"]
        /\ UNCHANGED <<conversations, clock, uuids, req, hist, error, listing, strVars, calVars, cfgVars, grVars>>

\* POST /chat: the completion returned 'text'; it is appended as the
\* assistant message and returned.
ChatReturn(r) ==
    \E text \in WholeTexts :
        /\ pc[r] = "awaiting"
        /\ conversations' = [conversations EXCEPT ![hist[r]] =
                                add_message(@, "assistant", text, clock + 1, r)]
        /\ clock' = clock + 1
        /\ body' = [body EXCEPT ![r] = text]
        /\ disclosed' = disclosed \cup {conversations[hist[r]].session_id}
        /\ status' = [status EXCEPT ![r] = 200]
        /\ mimetype' = [mimetype EXCEPT ![r] = "application/json"]
        /\ pc' = [pc EXCEPT ![r] = "responded"]
        /\ UNCHANGED <<uuids, req, hist, error, listing, strVars, calVars, cfgVars, grVars>>

\* Mutant of ChatFail: the error text is appended as the assistant message.
ChatFail_appends_error_text(r) ==
    /\ pc[r] = "awaiting"
    /\ conversations' = [conversations EXCEPT ![hist[r]] =
                            add_message(@, "assistant", UpstreamFailure, clock + 1, r)]
    /\ clock' = clock + 1
    /\ status' = [status EXCEPT ![r] = 500]
    /\ mimetype' = [mimetype EXCEPT ![r] = "application/json"]
    /\ error' = [error EXCEPT ![r] = UpstreamFailure]
    /\ pc' = [pc EXCEPT ![r] = "responded"]
    /\ UNCHANGED <<uuids, disclosed, req, hist, body, listing, strVars, calVars, cfgVars, grVars>>

\* POST /chat: the completion raised; 'except Exception' answers 500.
ChatFail(r) ==
    /\ pc[r] = "awaiting"
    /\ status' = [status EXCEPT ![r] = 500]
    /\ mimetype' = [mimetype EXCEPT ![r] = "application/json"]
    /\ error' = [error EXCEPT ![r] = UpstreamFailure]
    /\ pc' = [pc EXCEPT ![r] = "responded"]
    /\ UNCHANGED <<regVars, req, hist, body, listing, strVars, calVars, cfgVars, grVars>>

\* POST /chat/stream up to 'return Response(...)': the generator is created,
\* not started.
StreamStart(r) ==
    \E m \in MessageInputs, s \in SessionInputs :
        /\ Accept(r, "/chat/stream", m, s, "ready")
        /\ consumer' = [consumer EXCEPT ![r] =
                          IF m = Absent \/ m = "" THEN "none" ELSE "reading"]
        /\ UNCHANGED <<chunks, emitted, deltas, upstream, loop, calVars, cfgVars, grVars>>

\* Mutant of Listing: the system primer is left out of the answer.
Listing_without_system(h) ==
    LET Shown(m) == m.role # "system"
        shown == SelectSeq(h.messages, Shown)
    IN [i \in 1..Len(shown) |-> [role |-> shown[i].role, content |-> shown[i].content]]

\* The list get_conversation builds: msg.role.value and msg.content of each
\* message of the history, in the order of the list.
Listing(h) ==
    [i \in 1..Len(h.messages) |->
        [role |-> h.messages[i].role, content |-> h.messages[i].content]]

\* Identifiers a client can put into the path of GET /conversations.
LookupInputs == {"unknown-id"} \cup disclosed

\* GET /conversations/<session_id>: 404 when the identifier is no key of
\* conversations, else the session_id and the listing of its history.
GetConversation(r) ==
    \E s \in LookupInputs :
        /\ pc[r] = "idle"
        /\ req' = [req EXCEPT ![r] =
                     [route |-> "/conversations", message |-> Absent, session_id |-> s]]
        /\ mimetype' = [mimetype EXCEPT ![r] = "application/json"]
        /\ IF s \notin DOMAIN conversations
           THEN /\ status' = [status EXCEPT ![r] = 404]
                /\ error' = [error EXCEPT ![r] = "Conversation not found"]
                /\ listing' = [listing EXCEPT ![r] = <<>>]
           ELSE /\ status' = [status EXCEPT ![r] = 200]
                /\ error' = [error EXCEPT ![r] = ""]
                /\ listing' = [listing EXCEPT ![r] = Listing(conversations[s])]
        /\ pc' = [pc EXCEPT ![r] = "responded"]
        /\ UNCHANGED <<regVars, hist, body, strVars, calVars, cfgVars, grVars>>

\* ---------------------------------------------------------- streaming relay
\* The event get_stream yields for one chunk.
Event(chunk, sid) == [chunk |-> chunk, session_id |-> sid]

\* First next() of generate(): the loop is created, get_stream calls
\* completion(), and _stream_response dispatches the upstream request.
StreamOpen(r) ==
    /\ pc[r] = "ready"
    /\ loop' = [loop EXCEPT ![r] = "open"]
    /\ upstream' = [upstream EXCEPT ![r] = "open"]
    /\ pc' = [pc EXCEPT ![r] = "pulling"]
    /\ UNCHANGED <<regVars, req, hist, status, body, mimetype, error, listing,
                   chunks, emitted, deltas, consumer, calVars, cfgVars, grVars>>

\* The same, with the dispatch raising: generate's finally closes the loop.
StreamOpenFail(r) ==
    /\ pc[r] = "ready"
    /\ loop' = [loop EXCEPT ![r] = "closed"]
    /\ upstream' = [upstream EXCEPT ![r] = "failed"]
    /\ pc' = [pc EXCEPT ![r] = "failed"]
    /\ UNCHANGED <<regVars, req, hist, status, body, mimetype, error, listing,
                   chunks, emitted, deltas, consumer, calVars, cfgVars, grVars>>

\* _stream_response on one increment: what it yields (<<>>: nothing).
stream_response_yield(d) == IF ~d.is_none THEN <<d.content>> ELSE <<>>

\* get_stream's 'if chunk:' on what _stream_response yielded.
relay_keeps(y) == y # <<>> /\ Head(y) # ""

\* Mutant of UpstreamDelta: the event carries the session_id of the request
\* body.
UpstreamDelta_sends_request_session_id(r) ==
    \E d \in Deltas :
        /\ pc[r] = "pulling"
        /\ upstream[r] = "open"
        /\ Len(deltas[r]) < MaxIncrements
        /\ deltas' = [deltas EXCEPT ![r] = Append(@, d)]
        /\ LET y == stream_response_yield(d)
           IN /\ IF relay_keeps(y)
                 THEN /\ chunks' = [chunks EXCEPT ![r] = Append(@, Head(y))]
                      /\ emitted' = [emitted EXCEPT ![r] =
                                        Append(@, Event(Head(y), req[r].session_id))]
                      /\ disclosed' = disclosed \cup {req[r].session_id}
                      /\ pc' = [pc EXCEPT ![r] = "yielded"]
                 ELSE UNCHANGED <<chunks, emitted, pc, disclosed>>
        /\ UNCHANGED <<conversations, clock, uuids, req, hist, status, body, mimetype, error, listing, upstream, loop, consumer, calVars, cfgVars, grVars>>

\* Mutant of UpstreamDelta: the text gathered so far is persisted with each
\* chunk, before its event is handed over.
UpstreamDelta_persists_each_chunk(r) ==
    \E d \in Deltas :
        /\ pc[r] = "pulling"
        /\ upstream[r] = "open"
        /\ Len(deltas[r]) < MaxIncrements
        /\ deltas' = [deltas EXCEPT ![r] = Append(@, d)]
        /\ LET y == stream_response_yield(d)
           IN IF relay_keeps(y)
              THEN /\ chunks' = [chunks EXCEPT ![r] = Append(@, Head(y))]
                   /\ conversations' = [conversations EXCEPT ![hist[r]] =
                          add_message(@, "assistant", Join(Append(chunks[r], Head(y))),
                                      clock + 1, r)]
                   /\ clock' = clock + 1
                   /\ emitted' = [emitted EXCEPT ![r] =
                                     Append(@, Event(Head(y), conversations[hist[r]].session_id))]
                   /\ disclosed' = disclosed \cup {conversations[hist[r]].session_id}
                   /\ pc' = [pc EXCEPT ![r] = "yielded"]
              ELSE UNCHANGED <<chunks, emitted, pc, disclosed, conversations, clock>>
        /\ UNCHANGED <<uuids, req, hist, status, body, mimetype, error, listing, upstream, loop, consumer, calVars, cfgVars, grVars>>

\* Mutant of UpstreamDelta: the chunk is accumulated and its event held back.
UpstreamDelta_buffers_chunk(r) ==
    \E d \in Deltas :
        /\ pc[r] = "pulling"
        /\ upstream[r] = "open"
        /\ Len(deltas[r]) < MaxIncrements
        /\ deltas' = [deltas EXCEPT ![r] = Append(@, d)]
        /\ LET y == stream_response_yield(d)
           IN chunks' = [chunks EXCEPT ![r] = IF relay_keeps(y) THEN Append(@, Head(y)) ELSE @]
        /\ UNCHANGED <<emitted, pc, disclosed>>
        /\ UNCHANGED <<conversations, clock, uuids, req, hist, status, body, mimetype, error, listing, upstream, loop, consumer, calVars, cfgVars, grVars>>

\* The provider sends one increment d.
UpstreamDelta(r) ==
    \E d \in Deltas :
        /\ pc[r] = "pulling"
        /\ upstream[r] = "open"
        /\ Len(deltas[r]) < MaxIncrements
        /\ deltas' = [deltas EXCEPT ![r] = Append(@, d)]
        /\ LET y == stream_response_yield(d)
           IN /\ IF relay_keeps(y)
                 THEN /\ chunks' = [chunks EXCEPT ![r] = Append(@, Head(y))]
                      /\ emitted' = [emitted EXCEPT ![r] =
                                        Append(@, Event(Head(y), conversations[hist[r]].session_id))]
                      /\ disclosed' = disclosed \cup {conversations[hist[r]].session_id}
                      /\ pc' = [pc EXCEPT ![r] = "yielded"]
                 ELSE UNCHANGED <<chunks, emitted, pc, disclosed>>
        /\ UNCHANGED <<conversations, clock, uuids, req, hist, status, body, mimetype, error, listing, upstream, loop, consumer, calVars, cfgVars, grVars>>

\* Mutant of persist: only the last chunk is persisted.
persist_last_chunk(h, list, now, by) ==
    IF list # <<>>
    THEN add_message(h, "assistant", list[Len(list)], now, by)
    ELSE h

\* Mutant of persist: the text is persisted without the emptiness test.
persist_unconditional(h, list, now, by) ==
    add_message(h, "assistant", Join(list), now, by)

\* What get_stream does to the history once the chunk sequence is exhausted.
persist(h, list, now, by) ==
    LET complete_response == Join(list)
    IN IF complete_response # ""
       THEN add_message(h, "assistant", complete_response, now, by)
       ELSE h

\* Mutant of UpstreamDone: the loop is not closed when the stream ends.
UpstreamDone_leaves_loop_open(r) ==
    /\ pc[r] = "pulling"
    /\ upstream[r] = "open"
    /\ upstream' = [upstream EXCEPT ![r] = "exhausted"]
    /\ LET h == persist(conversations[hist[r]], chunks[r], clock + 1, r)
       IN /\ conversations' = [conversations EXCEPT ![hist[r]] = h]
          /\ clock' = IF h = conversations[hist[r]] THEN clock ELSE clock + 1
    /\ pc' = [pc EXCEPT ![r] = "exhausted"]
    /\ UNCHANGED <<uuids, disclosed, req, hist, status, body, mimetype, error, listing,
                   chunks, emitted, deltas, loop, consumer, calVars, cfgVars, grVars>>

\* The provider signals completion: persistence, StopAsyncIteration, and
\* generate's finally closes the loop.
UpstreamDone(r) ==
    /\ pc[r] = "pulling"
    /\ upstream[r] = "open"
    /\ upstream' = [upstream EXCEPT ![r] = "exhausted"]
    /\ LET h == persist(conversations[hist[r]], chunks[r], clock + 1, r)
       IN /\ conversations' = [conversations EXCEPT ![hist[r]] = h]
          /\ clock' = IF h = conversations[hist[r]] THEN clock ELSE clock + 1
    /\ loop' = [loop EXCEPT ![r] = "closed"]
    /\ pc' = [pc EXCEPT ![r] = "exhausted"]
    /\ UNCHANGED <<uuids, disclosed, req, hist, status, body, mimetype, error, listing,
                   chunks, emitted, deltas, consumer, calVars, cfgVars, grVars>>

\* Mutant of UpstreamError: the text gathered so far is persisted.
UpstreamError_persists_partial(r) ==
    /\ pc[r] = "pulling"
    /\ upstream[r] = "open"
    /\ upstream' = [upstream EXCEPT ![r] = "failed"]
    /\ conversations' = [conversations EXCEPT ![hist[r]] =
                            persist(@, chunks[r], clock + 1, r)]
    /\ clock' = clock + 1
    /\ loop' = [loop EXCEPT ![r] = "closed"]
    /\ pc' = [pc EXCEPT ![r] = "failed"]
    /\ UNCHANGED <<uuids, disclosed, req, hist, status, body, mimetype, error, listing,
                   chunks, emitted, deltas, consumer, calVars, cfgVars, grVars>>

\* The provider fails mid-stream: the exception passes through get_stream,
\* before its persistence lines, and through generate, whose finally closes
\* the loop.
UpstreamError(r) ==
    /\ pc[r] = "pulling"
    /\ upstream[r] = "open"
    /\ upstream' = [upstream EXCEPT ![r] = "failed"]
    /\ loop' = [loop EXCEPT ![r] = "closed"]
    /\ pc' = [pc EXCEPT ![r] = "failed"]
    /\ UNCHANGED <<regVars, req, hist, status, body, mimetype, error, listing,
                   chunks, emitted, deltas, consumer, calVars, cfgVars, grVars>>

\* The consumer asks for the next item: generate runs get_stream again.
ConsumerNext(r) ==
    /\ pc[r] = "yielded"
    /\ pc' = [pc EXCEPT ![r] = "pulling"]
    /\ UNCHANGED <<regVars, req, hist, status, body, mimetype, error, listing, strVars, calVars, cfgVars, grVars>>

\* Mutant of ConsumerClose: the relay goes on draining the upstream
\* sequence after the consumer has gone.
ConsumerClose_relay_drains(r) ==
    /\ pc[r] \in {"ready", "yielded"}
    /\ consumer' = [consumer EXCEPT ![r] = "gone"]
    /\ pc' = [pc EXCEPT ![r] = IF pc[r] = "yielded" THEN "pulling" ELSE "closed"]
    /\ UNCHANGED <<regVars, req, hist, status, body, mimetype, error, listing,
                   chunks, emitted, deltas, upstream, loop, calVars, cfgVars, grVars>>

\* The consumer disconnects: the server calls close() on the response
\* iterator, before its first next() or at a yield.  GeneratorExit ends
\* generate(), whose finally closes the loop; nothing closes get_stream or
\* the upstream chunk sequence, and the closed loop cannot run their
\* finalizers, so the upstream request stays as it is.
ConsumerClose(r) ==
    /\ pc[r] \in {"ready", "yielded"}
    /\ consumer' = [consumer EXCEPT ![r] = "gone"]
    /\ pc' = [pc EXCEPT ![r] = "closed"]
    /\ loop' = [loop EXCEPT ![r] = IF pc[r] = "yielded" THEN "closed" ELSE @]
    /\ UNCHANGED <<regVars, req, hist, status, body, mimetype, error, listing,
                   chunks, emitted, deltas, upstream, calVars, cfgVars, grVars>>

Next ==
    \E r \in Requests :
        \/ ChatStart(r)
        \/ ChatReturn(r)
        \/ ChatFail(r)
        \/ StreamStart(r)
        \/ StreamOpen(r)
        \/ StreamOpenFail(r)
        \/ UpstreamDelta(r)
        \/ UpstreamDone(r)
        \/ UpstreamError(r)
        \/ ConsumerNext(r)
        \/ ConsumerClose(r)
        \/ GetConversation(r)

Spec == Init /\ [][Next]_vars

\* What happens to an open streaming response: the consumer iterates it (or
\* closes it), the loop runs get_stream, the provider sends, ends or fails.
RelayStep(r) ==
    \/ StreamOpen(r)
    \/ StreamOpenFail(r)
    \/ UpstreamDelta(r)
    \/ UpstreamDone(r)
    \/ UpstreamError(r)
    \/ ConsumerNext(r)
    \/ ConsumerClose(r)

\* One streaming request next to a /chat or lookup request of another
\* client, with a WSGI consumer and an event loop that keep running: a
\* streaming response that can go on does go on.
Streamer == "r1"
Other == "r2"

NextLive ==
    \/ StreamStart(Streamer)
    \/ RelayStep(Streamer)
    \/ ChatStart(Other)
    \/ ChatReturn(Other)
    \/ ChatFail(Other)
    \/ GetConversation(Other)

LiveSpec == Init /\ [][NextLive]_vars /\ WF_vars(RelayStep(Streamer))

\* ------------------------------------------- two callers of add_message
\* The history both callers hold, as the handlers of two requests on one
\* session do.
Shared == "s1"

\* The content each caller appends.
Content(c) == IF c = "c1" THEN "A" ELSE "B"

\* One registered history, seeded as the handlers seed it, and two callers
\* about to call add_message on it.
InitAppend ==
    /\ conversations =
          (Shared :> add_message(MessageHistory(Shared), "system", SystemPrompt, 1, "r1"))
    /\ clock = 1
    /\ uuids = 1
    /\ disclosed = {Shared}
    /\ InitRequests
    /\ InitCallers
    /\ InitConfig
    /\ InitGradio

\* add_message up to the construction of the Message: the role is lowered
\* and checked (ValueError ends the call), the Message takes its timestamp.
AddMessageConstruct(c) ==
    \E role \in RoleInputs :
        /\ cpc[c] = "idle"
        /\ ccalls[c] < MaxCalls
        /\ ccalls' = [ccalls EXCEPT ![c] = @ + 1]
        /\ crole' = [crole EXCEPT ![c] = role]
        /\ IF ~RoleOk(role)
           THEN /\ cresult' = [cresult EXCEPT ![c] = "ValueError"]
                /\ UNCHANGED <<cpc, cmsg, clock>>
           ELSE /\ cresult' = [cresult EXCEPT ![c] = "running"]
                /\ cmsg' = [cmsg EXCEPT ![c] =
                              Message(Lower(role), Content(c), clock + 1,
                                      conversations[Shared].session_id, c)]
                /\ clock' = clock + 1
                /\ cpc' = [cpc EXCEPT ![c] = "constructed"]
        /\ UNCHANGED <<conversations, uuids, disclosed, creturned, reqVars, strVars, cfgVars, grVars>>

\* add_message from self.messages.append(message) to its return.
AddMessageAppend(c) ==
    /\ cpc[c] = "constructed"
    /\ conversations' = [conversations EXCEPT ![Shared].messages = ListAppend(@, cmsg[c])]
    /\ creturned' = [creturned EXCEPT ![c] = @ + 1]
    /\ cresult' = [cresult EXCEPT ![c] = "Message"]
    /\ cpc' = [cpc EXCEPT ![c] = "idle"]
    /\ UNCHANGED <<clock, uuids, disclosed, cmsg, ccalls, crole, reqVars, strVars, cfgVars, grVars>>

NextAppend ==
    \E c \in Callers :
        \/ AddMessageConstruct(c)
        \/ AddMessageAppend(c)

AppendSpec == InitAppend /\ [][NextAppend]_vars

\* --------------------------------------- a caller of completion(config)
\* cfg = CompletionConfig(temperature=t, top_p=p, stream=st): __post_init__
\* runs inside the constructor; when it raises, the assignment does not
\* happen and the caller keeps what it held.
ConfigConstruct ==
    \E t \in TemperatureInputs, p \in TopPInputs, st \in BOOLEAN :
        LET c == CompletionConfig(t, p, st)
            e == post_init(c)
        IN /\ cargs' = [temperature |-> t, top_p |-> p, stream |-> st]
           /\ cerror' = e
           /\ config' = IF e = "" THEN <<c>> ELSE config
           /\ UNCHANGED <<sent, dispatches, default_config, call, conversation,
                          regVars, reqVars, strVars, calVars, grVars>>

\* completion(conversation, config) with the configuration the caller holds
\* or with None: 'config or self.completion_config', the params dict, and
\* the chat.completions.create call (made by _stream_response when
\* config.stream is set).
CompletionCall ==
    \E given \in {config, <<>>} :
        LET c == IF given = <<>> THEN completion_config ELSE given[1]
        IN /\ dispatches < MaxDispatch
           /\ sent' = <<Params(c)>>
           /\ dispatches' = dispatches + 1
           /\ call' = [method |-> "completion", with_config |-> given # <<>>]
           /\ UNCHANGED <<config, cargs, cerror, default_config, conversation,
                          regVars, reqVars, strVars, calVars, grVars>>

\* Texts print_stream gathers from one stream.
PrintTexts == {"Hi"}

\* print_stream(conversation, config) with the configuration the caller
\* holds or with None: 'config or self.completion_config', stream set on
\* that object, the completion call, and the gathered text appended to the
\* conversation as the assistant message.
PrintStream ==
    \E given \in {config, <<>>}, text \in PrintTexts :
        LET c == [(IF given = <<>> THEN completion_config ELSE given[1])
                     EXCEPT !.stream = TRUE]
        IN /\ dispatches < MaxDispatch
           /\ default_config' = IF given = <<>> THEN c ELSE default_config
           /\ config' = IF given = <<>> THEN config ELSE <<c>>
           /\ sent' = <<Params(c)>>
           /\ dispatches' = dispatches + 1
           /\ call' = [method |-> "print_stream", with_config |-> given # <<>>]
           /\ conversation' = add_message(conversation, "assistant", text, clock + 1, "c1")
           /\ clock' = clock + 1
           /\ UNCHANGED <<cargs, cerror, conversations, uuids, disclosed,
                          reqVars, strVars, calVars, grVars>>

NextConfig == ConfigConstruct \/ CompletionCall \/ PrintStream

ConfigSpec == Init /\ [][NextConfig]_vars

\* ------------------------------------------------- Gradio chat handler
\* Messages a user types.
GradioMessages == {"Hello", "Bye"}

\* What the streaming completion does for one handler call: it fails, or
\* it yields these chunks and ends.
GradioUpstream ==
    {[failed |-> TRUE, chunks |-> <<>>],
     [failed |-> FALSE, chunks |-> <<>>],
     [failed |-> FALSE, chunks |-> <<"x">>],
     [failed |-> FALSE, chunks |-> <<"x", "y">>]}

\* str(e) of the IndexError raised by history[0] on an empty list.
IndexErrorText == "list index out of range"

\* conversations.items() in dict order, the order of insertion: the n-th
\* key is the n-th identifier generated.
NthKey(n) == "s" \o ToString(n)

\* The condition of the handler's search loop on the n-th entry, for UI
\* history 'history': "raises" when history[0] is evaluated on an empty
\* list, else whether the entry's second message is the first user message
\* of the UI history.
LoopTest(n, history) ==
    LET conv == conversations[NthKey(n)]
    IN IF ~(Len(conv.messages) >= 2) THEN "no"
       ELSE IF history = <<>> THEN "raises"
       ELSE IF conv.messages[2].content = history[1][1] THEN "yes"
       ELSE "no"

\* The search loop: 0 when no entry passes the test, else the position of
\* the first entry on which the test is true or raises.
FirstHit(history) ==
    LET hits == {n \in 1..uuids : LoopTest(n, history) # "no"}
    IN IF hits = {} THEN 0
       ELSE CHOOSE n \in hits : \A k \in hits : n <= k

\* One call chat(message, history) of the Gradio handler in tab t, run to
\* its end, and the pair Gradio adds to the tab's chat afterwards.
GradioChat(t) ==
    \E message \in GradioMessages, up \in GradioUpstream :
        LET history == ui[t]
            n == FirstHit(history)
            raised == n # 0 /\ LoopTest(n, history) = "raises"
            found == n # 0 /\ LoopTest(n, history) = "yes"
            g == IF found
                 THEN [key |-> NthKey(n), registry |-> conversations,
                       clock |-> clock, uuids |-> uuids]
                 ELSE LET h0 == add_message(MessageHistory(Uuid4), "system",
                                            SystemPrompt, clock + 1, t)
                      IN [key |-> h0.session_id,
                          registry |-> (h0.session_id :> h0) @@ conversations,
                          clock |-> clock + 1, uuids |-> uuids + 1]
            h1 == add_message(g.registry[g.key], "user", message, g.clock + 1, t)
            text == Join(up.chunks)
            h2 == IF ~up.failed /\ text # ""
                  THEN add_message(h1, "assistant", text, g.clock + 2, t)
                  ELSE h1
            output == IF raised THEN "Error: " \o IndexErrorText
                      ELSE IF up.failed THEN "Error: " \o UpstreamFailure
                      ELSE text
        IN /\ Len(ui[t]) < MaxTurns
           /\ IF raised
              THEN UNCHANGED <<conversations, clock, uuids>>
              ELSE /\ conversations' = [g.registry EXCEPT ![g.key] = h2]
                   /\ clock' = IF h2 = h1 THEN g.clock + 1 ELSE g.clock + 2
                   /\ uuids' = g.uuids
           /\ gresult' = [gresult EXCEPT ![t] =
                             [called |-> TRUE, empty_history |-> history = <<>>,
                              session |-> IF raised THEN "" ELSE g.key,
                              created |-> ~raised /\ ~found,
                              message |-> message, output |-> output]]
           /\ ui' = [ui EXCEPT ![t] = Append(@, <<message, output>>)]
           /\ UNCHANGED <<disclosed, reqVars, strVars, calVars, cfgVars>>

NextGradio == \E t \in Tabs : GradioChat(t)

GradioSpec == Init /\ [][NextGradio]_vars

\* ================================================================ claims
\* The messages request (or caller) r has put into the history it works on.
MessagesBy(r) ==
    IF hist[r] \in DOMAIN conversations
    THEN LET Mine(m) == m.by = r
         IN SelectSeq(conversations[hist[r]].messages, Mine)
    ELSE <<>>

\* The assistant messages among them.
AssistantBy(r) ==
    LET IsAssistant(m) == m.role = "assistant"
    IN SelectSeq(MessagesBy(r), IsAssistant)

\* The non-empty chunks c1, ..., cn the provider has sent to request r.
UpstreamTexts(r) ==
    LET HasText(d) == ~d.is_none /\ d.content # ""
        ds == SelectSeq(deltas[r], HasText)
    IN [i \in 1..Len(ds) |-> ds[i].content]

\* The chunk texts of the events handed to the consumer of request r.
EventChunks(r) == [i \in 1..Len(emitted[r]) |-> emitted[r][i].chunk]

\* C1: in every state the events emitted so far carry exactly the chunks
\* accumulated so far, in the same order; and when the upstream sequence is
\* exhausted with the consumer still reading, the events carry exactly the
\* non-empty upstream chunks c1..cn in order and, for n >= 1, the request
\* has appended exactly one assistant message, whose content is c1+...+cn.
C1_StreamedInOrderAndPersisted ==
    \A r \in Requests :
        /\ EventChunks(r) = chunks[r]
        /\ pc[r] = "exhausted" =>
              /\ EventChunks(r) = UpstreamTexts(r)
              /\ UpstreamTexts(r) # <<>> =>
                    /\ Len(AssistantBy(r)) = 1
                    /\ AssistantBy(r)[1].content = Join(UpstreamTexts(r))

\* C1 witness: a stream of two different chunks read to its end.
C1_Witness ==
    \E r \in Requests :
        /\ pc[r] = "exhausted"
        /\ UpstreamTexts(r) = <<"x", "y">>
        /\ EventChunks(r) = <<"x", "y">>
        /\ Len(AssistantBy(r)) = 1
        /\ AssistantBy(r)[1].content = "xy"

\* C2: once the upstream has failed (at dispatch or after k >= 0 chunks),
\* the events emitted are exactly the chunks received before the failure
\* (no further frame, no error frame), none is added in any later step, and
\* the request has appended, and goes on to append, no assistant message.
C2_UpstreamFailureDiscardsPartial ==
    /\ [](\A r \in Requests :
            pc[r] = "failed" =>
                /\ AssistantBy(r) = <<>>
                /\ EventChunks(r) = UpstreamTexts(r))
    /\ [][\A r \in Requests :
            pc[r] = "failed" =>
                /\ pc'[r] = "failed"
                /\ emitted'[r] = emitted[r]
                /\ MessagesBy(r)' = MessagesBy(r)]_vars

\* C2 witness: the upstream failed after one chunk was emitted, and the
\* other request has since appended to the same history.
C2_Witness ==
    \E r \in Requests :
        /\ pc[r] = "failed"
        /\ Len(emitted[r]) = 1
        /\ chunks[r] # <<>>
        /\ \E q \in Requests \ {r} : hist[q] = hist[r] /\ pc[q] = "responded"

\* C3: once the consumer has disconnected, the request has appended no
\* assistant message, and in every later step its accumulator and the
\* messages it has put into the history stay as they are.
C3_DisconnectStopsRelay ==
    /\ [](\A r \in Requests : consumer[r] = "gone" => AssistantBy(r) = <<>>)
    /\ [][\A r \in Requests :
            consumer[r] = "gone" =>
                /\ chunks'[r] = chunks[r]
                /\ MessagesBy(r)' = MessagesBy(r)]_vars

\* C3 witness: the consumer left after the first event, with the upstream
\* sequence unexhausted, and the other request has since finished.
C3_Witness ==
    \E r \in Requests :
        /\ consumer[r] = "gone"
        /\ Len(emitted[r]) = 1
        /\ upstream[r] = "open"
        /\ \E q \in Requests \ {r} : pc[q] \in {"responded", "exhausted"}

\* C4 (the claim as stated): once the consumer has stopped iterating, the
\* upstream request is not open any more.
C4_DisconnectReleasesUpstream ==
    \A r \in Requests : consumer[r] = "gone" => upstream[r] # "open"

\* C5: when two callers run add_message on one history at the same time,
\* the history holds, for each caller, exactly one message per call of it
\* that has returned, and no message twice.
C5_ConcurrentAppendsKeepBoth ==
    LET msgs == conversations[Shared].messages
    IN /\ \A c \in Callers :
            LET Its(m) == m.by = c /\ m.content = Content(c)
            IN Len(SelectSeq(msgs, Its)) = creturned[c]
       /\ \A i, j \in 1..Len(msgs) : i # j => msgs[i] # msgs[j]

\* C5 witness: the two calls overlapped: "A" was constructed first and
\* appended after "B".
C5_Witness ==
    LET msgs == conversations[Shared].messages
    IN \E i, j \in 1..Len(msgs) :
          /\ i < j
          /\ msgs[i].content = "B"
          /\ msgs[j].content = "A"
          /\ msgs[j].timestamp < msgs[i].timestamp

\* C6 (the claim as stated): in every history, the assistant reply of a
\* request directly follows the user message of that request.
C6_SameSessionRequestsSerialized ==
    \A s \in DOMAIN conversations :
        LET msgs == conversations[s].messages
        IN \A i, j \in 1..Len(msgs) :
              /\ msgs[i].role = "user"
              /\ msgs[j].role = "assistant"
              /\ msgs[i].by = msgs[j].by
              => j = i + 1

\* C7: while the upstream sequence of a streaming request, once opened, has
\* brought no non-empty chunk, no event has been emitted and the request
\* has appended no assistant message; a step that leaves it so adds nothing
\* to what the request has put into the history.
C7_EmptyStreamLeavesHistory ==
    /\ [](\A r \in Requests :
            upstream[r] # "none" /\ UpstreamTexts(r) = <<>> =>
                /\ emitted[r] = <<>>
                /\ AssistantBy(r) = <<>>)
    /\ [][\A r \in Requests :
            upstream[r] # "none" /\ UpstreamTexts(r)' = <<>> =>
                MessagesBy(r)' = MessagesBy(r)]_vars

\* C7 witness: a stream that ended having brought only null or empty
\* increments.
C7_Witness ==
    \E r \in Requests :
        /\ pc[r] = "exhausted"
        /\ Len(deltas[r]) = MaxIncrements
        /\ UpstreamTexts(r) = <<>>

\* C8 (the claim as stated): no history holds an assistant message with
\* empty content.
C8_NoEmptyAssistantTurn ==
    \A s \in DOMAIN conversations :
        \A i \in 1..Len(conversations[s].messages) :
            conversations[s].messages[i].role = "assistant"
                => conversations[s].messages[i].content # ""

\* C9 (the claim as stated): _stream_response yields nothing for a provider
\* increment whose text is null or the empty string.
C9_StreamSkipsNullAndEmpty ==
    \A r \in Requests :
        \A i \in 1..Len(deltas[r]) :
            deltas[r][i].is_none \/ deltas[r][i].content = ""
                => stream_response_yield(deltas[r][i]) = <<>>

\* A handler has just resolved the session of request r.
Accepted(r) == pc[r] = "idle" /\ pc'[r] \in {"awaiting", "ready"}

\* C10: in the step that resolves the session of a request: a supplied and
\* registered identifier gives the registered history, extended by the user
\* message only; otherwise the history is new, under an identifier that is
\* neither registered nor the supplied one, registered under its own
\* identifier and holding one system message followed by the user message;
\* every other registered history is as before.
C10_GetOrCreate ==
    [][\A r \in Requests :
        Accepted(r) =>
            LET s == req'[r].session_id
                k == hist'[r]
                new == conversations'[k].messages
            IN /\ k \in DOMAIN conversations'
               /\ conversations'[k].session_id = k
               /\ \A o \in DOMAIN conversations \ {k} :
                      conversations'[o] = conversations[o]
               /\ IF s # Absent /\ s \in DOMAIN conversations
                  THEN /\ k = s
                       /\ Len(new) = Len(conversations[k].messages) + 1
                       /\ SubSeq(new, 1, Len(new) - 1) = conversations[k].messages
                       /\ new[Len(new)].role = "user"
                  ELSE /\ k \notin DOMAIN conversations
                       /\ k # s
                       /\ Len(new) = 2
                       /\ new[1].role = "system"
                       /\ new[1].content = SystemPrompt
                       /\ new[2].role = "user"
                       /\ new[2].content = req'[r].message]_vars

\* C10 witness: one request sent an unknown identifier and got a new
\* history; the other sent the identifier of that history and got it.
C10_Witness ==
    \E r, q \in Requests :
        /\ req[r].session_id = "unknown-id"
        /\ hist[r] \in DOMAIN conversations
        /\ pc[q] \in {"awaiting", "ready"}
        /\ req[q].session_id = hist[r]
        /\ hist[q] = hist[r]
        /\ Len(conversations[hist[r]].messages) >= 3

\* The call of add_message caller c starts in this step.
CallStarts(c) == ccalls'[c] # ccalls[c]

\* The call of add_message caller c returns its Message in this step.
CallReturns(c) == cresult[c] = "running" /\ cresult'[c] = "Message"

InRange(c) ==
    /\ 0 <= c.temperature /\ c.temperature <= 20
    /\ 0 <= c.top_p /\ c.top_p <= 10

\* C12: constructor calls are the steps that change cargs.  No upstream completion call is dispatched with temperature outside
\* [0,2] or top_p outside [0,1]: constructing such a configuration raises
\* the ValueError, the caller gets no configuration from it, and no
\* upstream call is made by that step; a configuration in range is built
\* without error.
C12_OutOfRangeConfigNeverDispatched ==
    /\ [](/\ \A i \in 1..Len(sent) : InRange(sent[i])
          /\ \A i \in 1..Len(config) : InRange(config[i])
          /\ (cerror # "") = ~InRange(cargs))
    /\ [][cargs' # cargs /\ ~InRange(cargs') =>
             /\ cerror' # ""
             /\ config' = config
             /\ sent' = sent
             /\ dispatches' = dispatches]_vars

\* C12 witness: top_p -0.1 with a temperature in range was just refused,
\* after upstream calls with a configuration in range had been made.
C12_Witness ==
    /\ cargs.temperature = 5
    /\ cargs.top_p = -1
    /\ cerror = "Top_p must be between 0 and 1"
    /\ dispatches = 2
    /\ config # <<>>
    /\ sent = <<Params(config[1])>>

\* The handler of request r reads the request body in this step.
Arrives(r) == pc[r] = "idle" /\ pc'[r] # "idle"

\* The message of request r is missing or empty.
NoMessage(r) ==
    /\ req[r].route \in {"/chat", "/chat/stream"}
    /\ req[r].message = Absent \/ req[r].message = ""

\* C13: a POST to /chat or /chat/stream whose message is missing or empty
\* is answered with 400 and an error body; the step leaves the registry and
\* every history as they were (no session created, no message appended),
\* and the request never has a history, a message of its own, an event or
\* an upstream call.
C13_MissingMessageRejected ==
    /\ [](\A r \in Requests :
            pc[r] # "idle" /\ NoMessage(r) =>
                /\ pc[r] = "responded"
                /\ status[r] = 400
                /\ mimetype[r] = "application/json"
                /\ error[r] # ""
                /\ hist[r] = ""
                /\ upstream[r] = "none"
                /\ loop[r] = "none"
                /\ emitted[r] = <<>>
                /\ \A s \in DOMAIN conversations :
                      \A i \in 1..Len(conversations[s].messages) :
                          conversations[s].messages[i].by # r)
    /\ [][\A r \in Requests :
            Arrives(r) /\ NoMessage(r)' =>
                /\ conversations' = conversations
                /\ uuids' = uuids
                /\ clock' = clock]_vars

\* C13 witness: a /chat/stream request with an empty message and the
\* identifier of the session another request registered was answered 400,
\* and that session holds the messages of the other request only.
C13_Witness ==
    \E r, q \in Requests :
        /\ req[r].route = "/chat/stream"
        /\ req[r].message = ""
        /\ req[r].session_id = hist[q]
        /\ hist[q] \in DOMAIN conversations
        /\ status[r] = 400
        /\ error[r] = "Message is required"
        /\ Len(conversations[hist[q]].messages) = 3

\* POST /chat of request r returns its 200 response in this step.
Responds(r) == pc[r] = "awaiting" /\ pc'[r] = "responded" /\ status'[r] = 200

\* Role and content of a message.
Pair(m) == [role |-> m.role, content |-> m.content]

\* C14: when a POST /chat without session_id returns 200, the session_id it
\* returns is one generated for it and no client had been told, and the
\* history registered under it is exactly system primer, user(message),
\* assistant(response).  When a POST /chat on a known session returns 200
\* and no other request has appended to that session since its user
\* message, the history is what it was when the request arrived, then the
\* user message, then the assistant response; the user message was
\* appended alone when the request arrived.
C14_ChatExtendsHistory ==
    [][\A r \in Requests :
          /\ Responds(r) =>
                LET k == hist[r]
                    old == conversations[k].messages
                    new == conversations'[k].messages
                    n == Len(new)
                IN /\ k \in DOMAIN conversations'
                   /\ conversations'[k].session_id = k
                   /\ k \in disclosed'
                   /\ req[r].session_id = Absent =>
                         /\ k \notin disclosed
                         /\ n = 3
                         /\ Pair(new[1]) = [role |-> "system", content |-> SystemPrompt]
                         /\ Pair(new[2]) = [role |-> "user", content |-> req[r].message]
                         /\ Pair(new[3]) = [role |-> "assistant", content |-> body'[r]]
                   /\ old[Len(old)].by = r =>
                         /\ n = Len(old) + 1
                         /\ SubSeq(new, 1, n - 1) = old
                         /\ Pair(new[n - 1]) = [role |-> "user", content |-> req[r].message]
                         /\ Pair(new[n]) = [role |-> "assistant", content |-> body'[r]]
          /\ (Arrives(r) /\ req'[r].route = "/chat" /\ ~NoMessage(r)'
                /\ Known(req'[r].session_id)) =>
                LET k == req'[r].session_id
                    old == conversations[k].messages
                    new == conversations'[k].messages
                IN /\ hist'[r] = k
                   /\ Len(new) = Len(old) + 1
                   /\ SubSeq(new, 1, Len(old)) = old
                   /\ new[Len(new)].by = r
                   /\ Pair(new[Len(new)]) = [role |-> "user", content |-> req'[r].message]]_vars

\* C14 witness: one POST /chat without session_id has returned 200, a second
\* POST /chat sent the session_id it returned and has returned 200 too: the
\* history is system, user, assistant, user, assistant.
C14_Witness ==
    \E r, q \in Requests :
        /\ req[r].route = "/chat" /\ req[r].session_id = Absent
        /\ status[r] = 200 /\ pc[r] = "responded"
        /\ req[q].route = "/chat" /\ req[q].session_id = hist[r]
        /\ status[q] = 200 /\ pc[q] = "responded"
        /\ body[q] = "Hi"
        /\ LET msgs == conversations[hist[r]].messages
           IN /\ Len(msgs) = 5
              /\ msgs[3].by = r
              /\ msgs[4].by = q /\ msgs[4].role = "user"
              /\ msgs[5].by = q /\ msgs[5].role = "assistant"

\* The handler of GET /conversations answers request r in this step.
LooksUp(r) == Arrives(r) /\ req'[r].route = "/conversations"

\* C15: GET /conversations/{session_id} answers 404 for an identifier that
\* is not registered; for a registered one it answers 200 with as many
\* role/content pairs as the history has messages, the i-th pair being role
\* and content of the i-th message appended; the lookup changes neither the
\* registry nor any history.
C15_LookupReturnsHistory ==
    [][\A r \in Requests :
          LooksUp(r) =>
            LET s == req'[r].session_id
            IN /\ conversations' = conversations
               /\ uuids' = uuids
               /\ clock' = clock
               /\ IF s \notin DOMAIN conversations
                  THEN /\ status'[r] = 404
                       /\ error'[r] # ""
                       /\ listing'[r] = <<>>
                  ELSE LET msgs == conversations[s].messages
                       IN /\ status'[r] = 200
                          /\ error'[r] = ""
                          /\ Len(listing'[r]) = Len(msgs)
                          /\ \A i \in 1..Len(msgs) :
                                /\ listing'[r][i].role = msgs[i].role
                                /\ listing'[r][i].content = msgs[i].content]_vars

\* C15 witness: a lookup of a registered session answered 200 with the
\* three pairs system, user, assistant of its history.
C15_Witness ==
    \E r \in Requests :
        /\ req[r].route = "/conversations"
        /\ status[r] = 200
        /\ Len(listing[r]) = 3
        /\ listing[r][1].role = "system"
        /\ listing[r][2] = [role |-> "user", content |-> "Hello"]
        /\ listing[r][3] = [role |-> "assistant", content |-> "Hi"]
        /\ Len(conversations[req[r].session_id].messages) = 3

\* C16: on /chat/stream a failure before the first event is emitted, the
\* failure to dispatch the upstream streaming request included, reaches the
\* caller as the structured JSON error with status 400 or 500 and never as
\* a 200 text/event-stream response.  Violated: the handler has returned
\* its 200 text/event-stream response before generate() makes the upstream
\* call, and an exception raised there is outside the handler's try.
C16_FailureBeforeStreamIsStructuredError ==
    \A r \in Requests :
        /\ req[r].route = "/chat/stream"
        /\ pc[r] = "failed"
        /\ emitted[r] = <<>>
        => /\ status[r] \in {400, 500}
           /\ mimetype[r] = "application/json"
           /\ error[r] # ""

\* C17: every event of a streaming response carries the text of its chunk
\* and the session identifier of the history the request works on: in all
\* events of the response it is the key under which that history is
\* registered and the history's own session_id; a client has it once the
\* first event is out, and a request that sends it resolves to the same
\* history without registering anything.
C17_EventsCarrySessionId ==
    \A r \in Requests :
        /\ Len(emitted[r]) = Len(chunks[r])
        /\ \A i \in 1..Len(emitted[r]) :
              LET e == emitted[r][i]
              IN /\ e.chunk = chunks[r][i]
                 /\ e.session_id = hist[r]
                 /\ e.session_id \in DOMAIN conversations
                 /\ conversations[e.session_id].session_id = e.session_id
                 /\ e.session_id \in disclosed
                 /\ \A q \in Requests :
                       /\ get_or_create(e.session_id, q).key = hist[r]
                       /\ get_or_create(e.session_id, q).registry = conversations

\* C17 witness: a stream request without session_id has emitted two events,
\* and the other request sent the identifier they carry and works on the
\* same history.
C17_Witness ==
    \E r, q \in Requests :
        /\ req[r].session_id = Absent
        /\ Len(emitted[r]) = 2
        /\ emitted[r][1].session_id = emitted[r][2].session_id
        /\ q # r
        /\ req[q].session_id = emitted[r][1].session_id
        /\ hist[q] = hist[r]
        /\ pc[q] \in {"awaiting", "ready"}

\* The state request q holds for itself.
Own(q) ==
    <<pc[q], req[q], hist[q], status[q], body[q], mimetype[q], error[q], listing[q],
      chunks[q], emitted[q], deltas[q], upstream[q], loop[q], consumer[q]>>

\* The handler or response generator of request r takes a step.
Moves(r) == Own(r)' # Own(r)

\* C18: a request never waits on another one: wherever its handler or its
\* response generator stands, its next step can be taken, whatever the other
\* request is doing.  And a step of a request leaves the history of every
\* registered session other than its own, and the other request's own
\* state, as they were.
C18_SessionsIndependent ==
    /\ [](\A r \in Requests :
            /\ pc[r] = "idle" => ENABLED ChatStart(r) /\ ENABLED StreamStart(r)
            /\ pc[r] = "awaiting" => ENABLED ChatReturn(r)
            /\ pc[r] = "ready" => ENABLED StreamOpen(r)
            /\ pc[r] = "pulling" => ENABLED UpstreamDone(r)
            /\ pc[r] = "yielded" => ENABLED ConsumerNext(r))
    /\ [][\A r \in Requests :
            Moves(r) =>
                /\ \A s \in DOMAIN conversations \ {hist'[r]} :
                      /\ s \in DOMAIN conversations'
                      /\ conversations'[s] = conversations[s]
                /\ \A q \in Requests \ {r} : Own(q)' = Own(q)]_vars

\* C18 witness: two requests work on two different registered sessions at
\* the same time, one streaming and one awaiting its completion, and each
\* history holds the messages of its own request only.
C18_Witness ==
    \E r, q \in Requests :
        /\ hist[r] \in DOMAIN conversations
        /\ hist[q] \in DOMAIN conversations
        /\ hist[r] # hist[q]
        /\ pc[r] = "yielded"
        /\ pc[q] = "awaiting"
        /\ \A i \in 1..Len(conversations[hist[r]].messages) :
              conversations[hist[r]].messages[i].by = r
        /\ \A i \in 1..Len(conversations[hist[q]].messages) :
              conversations[hist[q]].messages[i].by = q

\* C19: a registered session identifier stays registered across every step
\* of /chat, /chat/stream and lookup requests, and stays mapped to the same
\* history: the one with that session_id and that first, seeded message.
C19_RegistryNeverEvicts ==
    [][\A s \in DOMAIN conversations :
          /\ s \in DOMAIN conversations'
          /\ conversations'[s].session_id = conversations[s].session_id
          /\ conversations'[s].messages # <<>>
          /\ conversations'[s].messages[1] = conversations[s].messages[1]]_vars

\* C19 witness: two sessions are registered, the first one was registered
\* before the request that registered the second arrived, and both requests
\* have ended, one of them a streaming one.
C19_Witness ==
    \E r, q \in Requests :
        /\ hist[r] \in DOMAIN conversations
        /\ hist[q] \in DOMAIN conversations
        /\ hist[r] # hist[q]
        /\ conversations[hist[r]].messages[Len(conversations[hist[r]].messages)].timestamp
              < conversations[hist[q]].messages[1].timestamp
        /\ pc[r] = "responded"
        /\ pc[q] = "exhausted"

\* C20: across every step, the message sequence a history had is a prefix
\* of the one it has afterwards: no message is removed, replaced or
\* reordered, and a system primer in first position stays there.
C20_HistoriesAppendOnly ==
    [][\A s \in DOMAIN conversations :
          s \in DOMAIN conversations' =>
            LET old == conversations[s].messages
                new == conversations'[s].messages
            IN /\ Len(new) >= Len(old)
               /\ SubSeq(new, 1, Len(old)) = old
               /\ old # <<>> /\ old[1].role = "system" =>
                     new[1].role = "system" /\ new[1].content = SystemPrompt]_vars

\* C20 witness: a history seeded with the system primer has taken the user
\* and assistant messages of a streaming request and then the user message
\* of a second request.
C20_Witness ==
    \E r, q \in Requests :
        /\ hist[r] \in DOMAIN conversations
        /\ req[r].route = "/chat/stream"
        /\ LET msgs == conversations[hist[r]].messages
           IN /\ Len(msgs) = 4
              /\ msgs[1].role = "system"
              /\ msgs[2].role = "user" /\ msgs[2].by = r
              /\ msgs[3].role = "assistant" /\ msgs[3].by = r
              /\ msgs[4].role = "user" /\ msgs[4].by = q

\* C21: in every history the message timestamps, taken when each message is
\* constructed, are non-decreasing along the sequence, also when two callers
\* run add_message on the same history at the same time.  Violated: a
\* caller that constructed its message first can append it second.
C21_TimestampsNonDecreasing ==
    \A s \in DOMAIN conversations :
        LET msgs == conversations[s].messages
        IN \A i \in 1..Len(msgs) : \A j \in i..Len(msgs) :
              msgs[i].timestamp <= msgs[j].timestamp

\* C22: the relay does not buffer: in every state each non-empty chunk
\* pulled from upstream so far has had its event handed to the consumer, so
\* chunk i+1 is never pulled before the event of chunk i is out; and while
\* the consumer holds an event it has not answered yet, the upstream
\* sequence is still unexhausted.
C22_NoBuffering ==
    \A r \in Requests :
        /\ Len(emitted[r]) = Len(UpstreamTexts(r))
        /\ \A i \in 1..Len(emitted[r]) : emitted[r][i].chunk = UpstreamTexts(r)[i]
        /\ pc[r] = "yielded" =>
              /\ upstream[r] = "open"
              /\ emitted[r] # <<>>
              /\ ~deltas[r][Len(deltas[r])].is_none
              /\ emitted[r][Len(emitted[r])].chunk = deltas[r][Len(deltas[r])].content

\* C22 witness: the consumer holds the first event while only one
\* increment has been pulled and the upstream sequence is not exhausted.
C22_Witness ==
    \E r \in Requests :
        /\ pc[r] = "yielded"
        /\ Len(emitted[r]) = 1
        /\ Len(deltas[r]) = 1
        /\ upstream[r] = "open"
        /\ AssistantBy(r) = <<>>

\* The streaming response of request r has ended at the provider's
\* completion signal: final persistence done, loop closed.
Finished(r) ==
    /\ pc[r] = "exhausted"
    /\ upstream[r] = "exhausted"
    /\ loop[r] = "closed"
    /\ Len(emitted[r]) <= MaxIncrements
    /\ IF chunks[r] = <<>>
       THEN AssistantBy(r) = <<>>
       ELSE Len(AssistantBy(r)) = 1 /\ AssistantBy(r)[1].content = Join(chunks[r])

\* C23: a streaming response that has been returned eventually terminates:
\* unless the upstream fails or the consumer stops reading, it reaches the
\* provider's completion signal having emitted finitely many events,
\* performed the final persistence step, ended the stream and closed the
\* event loop it created.
C23_StreamTerminates ==
    pc[Streamer] = "ready" ~>
        (Finished(Streamer) \/ pc[Streamer] = "failed" \/ pc[Streamer] = "closed")

\* C23 witness: a stream ended at the completion signal after two events,
\* with the loop closed and the text persisted.
C23_Witness ==
    \E r \in Requests :
        /\ Finished(r)
        /\ Len(emitted[r]) = 2
        /\ consumer[r] = "reading"
        /\ loop[r] = "closed"

\* POST /chat of request r answers 500 in this step.
Fails(r) == pc[r] = "awaiting" /\ pc'[r] = "responded" /\ status'[r] = 500

\* C24: when the upstream completion fails during POST /chat, the answer is
\* 500 with the error text and the step changes no history and tells no
\* client an identifier, so the history still ends as it did; the request
\* has appended no assistant message, its last message is its user message,
\* its session is registered, and a session the request created holds
\* exactly system primer and user message and is known to no client.
C24_ChatFailureKeepsUserMessage ==
    /\ [](\A r \in Requests :
            req[r].route = "/chat" /\ status[r] = 500 =>
                LET mine == MessagesBy(r)
                    msgs == conversations[hist[r]].messages
                IN /\ error[r] = UpstreamFailure
                   /\ mimetype[r] = "application/json"
                   /\ body[r] = ""
                   /\ hist[r] \in DOMAIN conversations
                   /\ AssistantBy(r) = <<>>
                   /\ mine # <<>>
                   /\ Pair(mine[Len(mine)]) = [role |-> "user", content |-> req[r].message]
                   /\ msgs[1].by = r =>
                         /\ Len(msgs) = 2
                         /\ msgs[2] = mine[Len(mine)]
                         /\ hist[r] \notin disclosed)
    /\ [][\A r \in Requests :
            Fails(r) =>
                /\ conversations' = conversations
                /\ disclosed' = disclosed
                /\ LET msgs == conversations'[hist[r]].messages
                   IN msgs[Len(msgs)].by = r => msgs[Len(msgs)].role = "user"]_vars

\* C24 witness: a POST /chat without session_id was answered 500; the
\* session it created is registered with system primer and user message.
C24_Witness ==
    \E r \in Requests :
        /\ req[r].route = "/chat"
        /\ req[r].session_id = Absent
        /\ status[r] = 500
        /\ hist[r] \in DOMAIN conversations
        /\ Len(conversations[hist[r]].messages) = 2
        /\ hist[r] \notin disclosed

\* C25: in every state a streaming request has either appended no
\* assistant message, or exactly one, appended when the consumer had asked
\* for the item after the last event: the upstream sequence is then
\* exhausted, and the text is the concatenation of the chunks of the events
\* already handed to the consumer, never text the consumer was not sent.
C25_PersistedTextWasEmitted ==
    \A r \in Requests :
        req[r].route = "/chat/stream" /\ AssistantBy(r) # <<>> =>
            /\ Len(AssistantBy(r)) = 1
            /\ AssistantBy(r)[1].content = Join(EventChunks(r))
            /\ emitted[r] # <<>>
            /\ pc[r] = "exhausted"
            /\ consumer[r] = "reading"

\* C25 witness: the persisted assistant text "xx" of a streaming request
\* whose two events "x", "x" the consumer was handed before.
C25_Witness ==
    \E r \in Requests :
        /\ req[r].route = "/chat/stream"
        /\ EventChunks(r) = <<"x", "x">>
        /\ Len(AssistantBy(r)) = 1
        /\ AssistantBy(r)[1].content = "xx"

\* C26: print_stream leaves the default completion configuration as it
\* was, so completion() called without a config still sends a non-streaming
\* request.  Violated: print_stream without a config sets stream on the
\* default object itself.
C26_PrintStreamKeepsDefault ==
    /\ default_config.stream = FALSE
    /\ call = [method |-> "completion", with_config |-> FALSE] =>
          \A i \in 1..Len(sent) : sent[i].stream = FALSE

\* C27: in every state each entry of the session registry is keyed by the
\* session_id of the history it holds, and every message of that history
\* carries this session_id.
C27_KeysAndMessagesCarrySessionId ==
    \A s \in DOMAIN conversations :
        /\ conversations[s].session_id = s
        /\ \A i \in 1..Len(conversations[s].messages) :
              conversations[s].messages[i].session_id = s

\* C27 witness: two sessions are registered, one of them holding messages
\* of both requests, a streamed assistant message among them.
C27_Witness ==
    \E r, q \in Requests :
        /\ r # q
        /\ Cardinality(DOMAIN conversations) = 2
        /\ hist[r] \in DOMAIN conversations
        /\ hist[q] \in DOMAIN conversations
        /\ hist[r] # hist[q]
        /\ req[r].route = "/chat/stream"
        /\ Len(AssistantBy(r)) = 1
        /\ Len(conversations[hist[q]].messages) = 3

\* C28: a message that arrives with an empty UI history starts a new
\* session, seeded with the system message and registered, and is answered
\* by the assistant, whatever sessions are registered already.  Violated:
\* with a session registered, the search loop evaluates history[0] on the
\* empty list and the handler answers with the IndexError text.
C28_EmptyHistoryStartsSession ==
    \A t \in Tabs :
        gresult[t].called /\ gresult[t].empty_history =>
            /\ gresult[t].created
            /\ gresult[t].session \in DOMAIN conversations
            /\ conversations[gresult[t].session].messages[1].role = "system"
            /\ gresult[t].output # "Error: " \o IndexErrorText

====
